---- MODULE Spec2Model ----
(***************************************************************************)
(* Model of src/simulador_hospital.py: a hospital simulation in which      *)
(* patient "processes" (threads) run their activities (consultation, exam, *)
(* surgery, bed) as further threads that compete for three counting        *)
(* semaphores and report back through threading.Event objects.             *)
(*                                                                         *)
(* Every statement that touches shared state (a semaphore, an event, a     *)
(* thread start, a join, a draw from the random source) is one step; the   *)
(* label of a program counter is the source line of the statement the      *)
(* thread executes next.  log() and time.sleep() change none of the state  *)
(* modelled here (log only takes and gives back print_lock): a thread that *)
(* sleeps is a thread standing at its next label.  random.random() and     *)
(* random.uniform() take the next value of the one random source that all  *)
(* threads share: a stream fixed by random.seed(), or, when the source is  *)
(* left unseeded, a nondeterministic choice.                               *)
(***************************************************************************)
EXTENDS Integers, FiniteSets, Sequences, TLC

\* Sizes of the configuration explored (lines 11-14 set 5, 2, 10 and 10; the
\* model explores small pools so that every acquire can be contended).
N_MEDICOS == 1
N_SALAS_CIRURGIA == 1
N_LEITOS == 1
N_PACIENTES == 2

Patients == 1..N_PACIENTES
Threads == {"consulta", "exame", "cirurgia", "leito"}
Pools == {"medicos", "salas", "leitos"}

VARIABLES
  main,            \* run_simulation: label of its next statement
  idx,             \* run_simulation: patient the start loop / join loop is at
  proc,            \* proc[p]: label of Patient p's run_process thread
  act,             \* act[p][t]: label of Patient p's activity thread t
  fazer_exame,     \* run_process local, per patient
  fazer_cirurgia,  \* run_process local, per patient
  consulta_done,   \* the four threading.Event objects of each patient
  exames_done,
  cirurgia_done,
  leito_done,
  medicos_sem,     \* value of the three semaphores
  salas_sem,
  leitos_sem,
  cap,             \* cap[r]: the value pool r was constructed with
  held,            \* held[p][t][r]: permits of pool r that p's thread t has acquired and not released
  tmo,             \* tmo[p][t]: pools whose acquire returned False in the running thread
                   \* (its locals acquired, sala_acquired, medico_acquired, acquired_med)
  sets,            \* sets[p][t]: calls of set() on the event of activity t so far
  launched,        \* launched[p][t]: Thread.start() calls for activity t so far
  seed,            \* the stream of the module-level random source: seed[i] is TRUE when
                   \* its i-th value is below every threshold the program compares with,
                   \* FALSE when it is above all of them; <<>> when the source is unseeded
  rng              \* values of the stream taken so far

simVars == <<main, idx>>
procVars == <<proc, fazer_exame, fazer_cirurgia>>
events == <<consulta_done, exames_done, cirurgia_done, leito_done>>
sems == <<medicos_sem, salas_sem, leitos_sem>>
hist == <<held, tmo, sets, launched>>
source == <<seed, rng>>
vars == <<main, idx, proc, act, fazer_exame, fazer_cirurgia, consulta_done,
          exames_done, cirurgia_done, leito_done, medicos_sem, salas_sem,
          leitos_sem, cap, held, tmo, sets, launched, seed, rng>>

----------------------------------------------------------------------------
\* State after the module is loaded and run_simulation has built the patients.

InitFrom(c, s) ==
  /\ main = "l230"
  /\ idx = 1
  /\ proc = [p \in Patients |-> "unstarted"]
  /\ act = [p \in Patients |-> [t \in Threads |-> "unstarted"]]
  /\ fazer_exame = [p \in Patients |-> FALSE]
  /\ fazer_cirurgia = [p \in Patients |-> FALSE]
  /\ consulta_done = [p \in Patients |-> FALSE]
  /\ exames_done = [p \in Patients |-> FALSE]
  /\ cirurgia_done = [p \in Patients |-> FALSE]
  /\ leito_done = [p \in Patients |-> FALSE]
  /\ cap = c
  /\ medicos_sem = c["medicos"]
  /\ salas_sem = c["salas"]
  /\ leitos_sem = c["leitos"]
  /\ held = [p \in Patients |-> [t \in Threads |-> [r \in Pools |-> 0]]]
  /\ tmo = [p \in Patients |-> [t \in Threads |-> {}]]
  /\ sets = [p \in Patients |-> [t \in Threads |-> 0]]
  /\ launched = [p \in Patients |-> [t \in Threads |-> 0]]
  /\ seed = s
  /\ rng = 0

\* run_simulation called without random.seed(): the draws are free.
InitWith(c) == InitFrom(c, <<>>)

Init ==
  InitWith([r \in Pools |-> CASE r = "medicos" -> N_MEDICOS
                              [] r = "salas" -> N_SALAS_CIRURGIA
                              [] r = "leitos" -> N_LEITOS])

----------------------------------------------------------------------------
\* The primitives of the threading module, as the program uses them.

Sem(r) ==
  CASE r = "medicos" -> medicos_sem
    [] r = "salas" -> salas_sem
    [] r = "leitos" -> leitos_sem

Done(p, t) ==
  CASE t = "consulta" -> consulta_done[p]
    [] t = "exame" -> exames_done[p]
    [] t = "cirurgia" -> cirurgia_done[p]
    [] t = "leito" -> leito_done[p]

\* Semaphore.acquire(timeout=...): True, taking one permit, when one is there;
\* False, changing nothing, when the value is still 0 once the timeout is over.
acquire(r, ok) ==
  /\ ok <=> (Sem(r) > 0)
  /\ medicos_sem' = IF ok /\ r = "medicos" THEN medicos_sem - 1 ELSE medicos_sem
  /\ salas_sem' = IF ok /\ r = "salas" THEN salas_sem - 1 ELSE salas_sem
  /\ leitos_sem' = IF ok /\ r = "leitos" THEN leitos_sem - 1 ELSE leitos_sem

\* Semaphore.release(): the value goes up by one (threading.Semaphore has no ceiling).
release(r) ==
  /\ medicos_sem' = IF r = "medicos" THEN medicos_sem + 1 ELSE medicos_sem
  /\ salas_sem' = IF r = "salas" THEN salas_sem + 1 ELSE salas_sem
  /\ leitos_sem' = IF r = "leitos" THEN leitos_sem + 1 ELSE leitos_sem

\* Event.set() on the event of activity t of patient p.
set(p, t) ==
  /\ consulta_done' = IF t = "consulta" THEN [consulta_done EXCEPT ![p] = TRUE] ELSE consulta_done
  /\ exames_done' = IF t = "exame" THEN [exames_done EXCEPT ![p] = TRUE] ELSE exames_done
  /\ cirurgia_done' = IF t = "cirurgia" THEN [cirurgia_done EXCEPT ![p] = TRUE] ELSE cirurgia_done
  /\ leito_done' = IF t = "leito" THEN [leito_done EXCEPT ![p] = TRUE] ELSE leito_done
  /\ sets' = [sets EXCEPT ![p][t] = @ + 1]

\* random.random() < threshold: the next value of the stream, any value when unseeded.
random(d) ==
  /\ seed # <<>> => d = seed[rng + 1]
  /\ rng' = IF seed # <<>> THEN rng + 1 ELSE rng
  /\ UNCHANGED seed

\* random.uniform(a, b) for a duration that is only slept (slept: the block
\* that ends with this step has drawn one); it takes one value of the stream.
uniform(slept) ==
  /\ rng' = IF slept /\ seed # <<>> THEN rng + 1 ELSE rng
  /\ UNCHANGED seed

\* Thread(target=self.thread_<t>).start(): the activity thread stands at its first statement.
start(p, t, first) ==
  /\ act' = [act EXCEPT ![p][t] = first]
  /\ launched' = [launched EXCEPT ![p][t] = @ + 1]

\* The activity thread has been started and has not returned.
InFlight(p, t) == act[p][t] \notin {"unstarted", "done"}

\* One step of activity thread t of patient p, from label `from` to label `to`.
goto(p, t, from, to) ==
  /\ act[p][t] = from
  /\ act' = [act EXCEPT ![p][t] = to]

\* The locals of a thread function are gone once it has returned.
locals(p, t, to, v) == IF to = "done" THEN [tmo EXCEPT ![p][t] = {}] ELSE v

\* `acquired = <pool>.acquire(timeout=...)` followed by the branch on the result.
AcquireStep(p, t, r, from, onTrue, onFalse) ==
  \E ok \in BOOLEAN :
    /\ goto(p, t, from, IF ok THEN onTrue ELSE onFalse)
    /\ acquire(r, ok)
    /\ held' = IF ok THEN [held EXCEPT ![p][t][r] = @ + 1] ELSE held
    /\ tmo' = IF ok THEN tmo ELSE [tmo EXCEPT ![p][t] = @ \cup {r}]
    /\ UNCHANGED <<simVars, procVars, events, cap, source, sets, launched>>

\* `<pool>.release()` in a finally clause.
ReleaseStep(p, t, r, from, to, slept) ==
  /\ goto(p, t, from, to)
  /\ release(r)
  /\ uniform(slept)
  /\ held' = [held EXCEPT ![p][t][r] = @ - 1]
  /\ tmo' = locals(p, t, to, tmo)
  /\ UNCHANGED <<simVars, procVars, events, cap, sets, launched>>

\* `self.<t>_done.set()`.
SetStep(p, t, from, to, slept) ==
  /\ goto(p, t, from, to)
  /\ set(p, t)
  /\ uniform(slept)
  /\ tmo' = locals(p, t, to, tmo)
  /\ UNCHANGED <<simVars, procVars, sems, cap, held, launched>>

----------------------------------------------------------------------------
\* Patient.thread_consulta (lines 119-133).  In each thread definition the
\* step is chosen by the label the thread stands at.

ConsultaAcquire(p) == AcquireStep(p, "consulta", "medicos", "l121", "l132", "l124")

\* Variant: the failed acquire is followed by the release of the finally clause.
ConsultaTimeoutSet_Releasing(p) == ReleaseStep(p, "consulta", "medicos", "l124", "l133", FALSE)

ConsultaTimeoutSet(p) == SetStep(p, "consulta", "l124", "done", FALSE)

ConsultaRelease(p) == ReleaseStep(p, "consulta", "medicos", "l132", "l133", TRUE)

ConsultaSet(p) == SetStep(p, "consulta", "l133", "done", FALSE)

\* Variant: the finally clause sets consulta_done before it releases the practitioner.
thread_consulta_SignalFirst(p) ==
  /\ InFlight(p, "consulta")
  /\ \/ ConsultaAcquire(p)
     \/ ConsultaTimeoutSet(p)
     \/ SetStep(p, "consulta", "l132", "l133", TRUE)
     \/ ReleaseStep(p, "consulta", "medicos", "l133", "done", FALSE)

thread_consulta(p) ==
  /\ InFlight(p, "consulta")
  /\ \/ act[p]["consulta"] = "l121" /\ ConsultaAcquire(p)
     \/ act[p]["consulta"] = "l124" /\ ConsultaTimeoutSet(p)
     \/ act[p]["consulta"] = "l132" /\ ConsultaRelease(p)
     \/ act[p]["consulta"] = "l133" /\ ConsultaSet(p)

----------------------------------------------------------------------------
\* Patient.thread_exame (lines 135-158).

ExameDraw(p) ==
  /\ \E precisa_medico \in BOOLEAN :
       /\ goto(p, "exame", "l137", IF precisa_medico THEN "l140" ELSE "l158")
       /\ random(precisa_medico)
  /\ UNCHANGED <<simVars, procVars, events, sems, cap, hist>>

ExameAcquire(p) == AcquireStep(p, "exame", "medicos", "l140", "l151", "l143")

ExameTimeoutSet(p) == SetStep(p, "exame", "l143", "done", FALSE)

\* Variant: the finally clause of the exam does not give the practitioner back.
ExameRelease_Keeping(p) ==
  /\ goto(p, "exame", "l151", "l152")
  /\ uniform(TRUE)
  /\ UNCHANGED <<simVars, procVars, events, sems, cap, hist>>

ExameRelease(p) == ReleaseStep(p, "exame", "medicos", "l151", "l152", TRUE)

ExameSet(p) == SetStep(p, "exame", "l152", "done", FALSE)

ExameSemMedicoSet(p) == SetStep(p, "exame", "l158", "done", TRUE)

thread_exame(p) ==
  /\ InFlight(p, "exame")
  /\ \/ act[p]["exame"] = "l137" /\ ExameDraw(p)
     \/ act[p]["exame"] = "l140" /\ ExameAcquire(p)
     \/ act[p]["exame"] = "l143" /\ ExameTimeoutSet(p)
     \/ act[p]["exame"] = "l151" /\ ExameRelease(p)
     \/ act[p]["exame"] = "l152" /\ ExameSet(p)
     \/ act[p]["exame"] = "l158" /\ ExameSemMedicoSet(p)

----------------------------------------------------------------------------
\* Patient.thread_cirurgia (lines 160-184).

\* Variant: the result of the room acquire is not looked at.
CirurgiaAcquireSala_IgnoringResult(p) ==
  \E ok \in BOOLEAN :
    /\ goto(p, "cirurgia", "l164", "l171")
    /\ acquire("salas", ok)
    /\ held' = IF ok THEN [held EXCEPT ![p]["cirurgia"]["salas"] = @ + 1] ELSE held
    /\ UNCHANGED <<simVars, procVars, events, cap, source, tmo, sets, launched>>

CirurgiaAcquireSala(p) == AcquireStep(p, "cirurgia", "salas", "l164", "l171", "l167")

CirurgiaSalaTimeoutSet(p) == SetStep(p, "cirurgia", "l167", "done", FALSE)

\* Variant: the return after the failed practitioner acquire skips the room release.
CirurgiaAcquireMedico_Leaking(p) == AcquireStep(p, "cirurgia", "medicos", "l171", "l181", "done")

\* On False the `return` of line 174 leaves through the outer finally (line 184).
CirurgiaAcquireMedico(p) == AcquireStep(p, "cirurgia", "medicos", "l171", "l181", "l184")

CirurgiaReleaseMedico(p) == ReleaseStep(p, "cirurgia", "medicos", "l181", "l182", TRUE)

CirurgiaSet(p) == SetStep(p, "cirurgia", "l182", "l184", FALSE)

CirurgiaReleaseSala(p) == ReleaseStep(p, "cirurgia", "salas", "l184", "done", FALSE)

\* Variant: the practitioner is acquired first, the room second.
thread_cirurgia_MedicoFirst(p) ==
  /\ InFlight(p, "cirurgia")
  /\ \/ AcquireStep(p, "cirurgia", "medicos", "l164", "l171", "l167")
     \/ CirurgiaSalaTimeoutSet(p)
     \/ AcquireStep(p, "cirurgia", "salas", "l171", "l181", "l174")
     \/ ReleaseStep(p, "cirurgia", "medicos", "l174", "done", FALSE)
     \/ CirurgiaReleaseMedico(p)
     \/ CirurgiaSet(p)
     \/ CirurgiaReleaseSala(p)

thread_cirurgia(p) ==
  /\ InFlight(p, "cirurgia")
  /\ \/ act[p]["cirurgia"] = "l164" /\ CirurgiaAcquireSala(p)
     \/ act[p]["cirurgia"] = "l167" /\ CirurgiaSalaTimeoutSet(p)
     \/ act[p]["cirurgia"] = "l171" /\ CirurgiaAcquireMedico(p)
     \/ act[p]["cirurgia"] = "l181" /\ CirurgiaReleaseMedico(p)
     \/ act[p]["cirurgia"] = "l182" /\ CirurgiaSet(p)
     \/ act[p]["cirurgia"] = "l184" /\ CirurgiaReleaseSala(p)

----------------------------------------------------------------------------
\* Patient.thread_leito (lines 186-215).

LeitoAcquire(p) == AcquireStep(p, "leito", "leitos", "l188", "l196", "l191")

LeitoTimeoutSet(p) == SetStep(p, "leito", "l191", "done", FALSE)

LeitoDraw(p) ==
  /\ \E precisa_medico \in BOOLEAN :
       /\ goto(p, "leito", "l196", IF precisa_medico THEN "l199" ELSE "l214")
       /\ random(precisa_medico)
  /\ UNCHANGED <<simVars, procVars, events, sems, cap, hist>>

\* Variant: the practitioner release of line 206 also runs after a failed acquire.
LeitoAcquireMedico_ReleasingAnyway(p) ==
  AcquireStep(p, "leito", "medicos", "l199", "l206", "l206")

\* Variant: a failed practitioner acquire returns from the thread at once.
LeitoAcquireMedico_EndingActivity(p) ==
  AcquireStep(p, "leito", "medicos", "l199", "l206", "done")

\* On False the thread only logs (line 208) and goes on to the bed stay.
LeitoAcquireMedico(p) == AcquireStep(p, "leito", "medicos", "l199", "l206", "l214")

LeitoReleaseMedico(p) == ReleaseStep(p, "leito", "medicos", "l206", "l214", TRUE)

LeitoRelease(p) == ReleaseStep(p, "leito", "leitos", "l214", "l215", TRUE)

LeitoSet(p) == SetStep(p, "leito", "l215", "done", FALSE)

thread_leito(p) ==
  /\ InFlight(p, "leito")
  /\ \/ act[p]["leito"] = "l188" /\ LeitoAcquire(p)
     \/ act[p]["leito"] = "l191" /\ LeitoTimeoutSet(p)
     \/ act[p]["leito"] = "l196" /\ LeitoDraw(p)
     \/ act[p]["leito"] = "l199" /\ LeitoAcquireMedico(p)
     \/ act[p]["leito"] = "l206" /\ LeitoReleaseMedico(p)
     \/ act[p]["leito"] = "l214" /\ LeitoRelease(p)
     \/ act[p]["leito"] = "l215" /\ LeitoSet(p)

----------------------------------------------------------------------------
\* Patient.run_process (lines 79-116).

\* One step of run_process of patient p that starts activity t.
ProcStart(p, t, from, to, first) ==
  /\ proc[p] = from
  /\ proc' = [proc EXCEPT ![p] = to]
  /\ start(p, t, first)
  /\ UNCHANGED <<simVars, fazer_exame, fazer_cirurgia, events, sems, cap, source, held, tmo, sets>>

\* `self.<t>_done.wait()`: returns once the event is set.
ProcWait(p, t, from, to) ==
  /\ proc[p] = from
  /\ Done(p, t)
  /\ proc' = [proc EXCEPT ![p] = to]
  /\ UNCHANGED <<simVars, act, fazer_exame, fazer_cirurgia, events, sems, cap, source, hist>>

ProcStartConsulta(p) == ProcStart(p, "consulta", "l80", "l82", "l121")

\* Variant: run_process does not wait for the consultation event.
ProcWaitConsulta_NoWait(p) ==
  /\ proc[p] = "l82"
  /\ proc' = [proc EXCEPT ![p] = "l86"]
  /\ UNCHANGED <<simVars, act, fazer_exame, fazer_cirurgia, events, sems, cap, source, hist>>

ProcWaitConsulta(p) == ProcWait(p, "consulta", "l82", "l86")

\* lines 86-87
ProcDrawExame(p) ==
  /\ proc[p] = "l86"
  /\ \E d \in BOOLEAN :
       /\ random(d)
       /\ fazer_exame' = [fazer_exame EXCEPT ![p] = d]
  /\ fazer_cirurgia' = [fazer_cirurgia EXCEPT ![p] = FALSE]
  /\ proc' = [proc EXCEPT ![p] = "l90"]
  /\ UNCHANGED <<simVars, act, events, sems, cap, hist>>

\* lines 90-94
ProcDrawDirect(p) ==
  /\ proc[p] = "l90"
  /\ \E d \in BOOLEAN :
       /\ random(d)
       /\ fazer_cirurgia' = [fazer_cirurgia EXCEPT ![p] = IF d THEN TRUE ELSE @]
  /\ proc' = [proc EXCEPT ![p] = IF fazer_exame[p] THEN "l95" ELSE "l103"]
  /\ UNCHANGED <<simVars, act, fazer_exame, events, sems, cap, hist>>

ProcStartExame(p) == ProcStart(p, "exame", "l95", "l97", "l137")

ProcWaitExame(p) == ProcWait(p, "exame", "l97", "l99")

\* Variant: the draw after the exams overwrites the direct draw.
ProcDrawCirurgia_Overwriting(p) ==
  /\ proc[p] = "l99"
  /\ \E d \in BOOLEAN :
       /\ random(d)
       /\ fazer_cirurgia' = [fazer_cirurgia EXCEPT ![p] = d]
  /\ proc' = [proc EXCEPT ![p] = "l103"]
  /\ UNCHANGED <<simVars, act, fazer_exame, events, sems, cap, hist>>

\* lines 99-100
ProcDrawCirurgia(p) ==
  /\ proc[p] = "l99"
  /\ \E d \in BOOLEAN :
       /\ random(d)
       /\ fazer_cirurgia' = [fazer_cirurgia EXCEPT ![p] = IF d THEN TRUE ELSE @]
  /\ proc' = [proc EXCEPT ![p] = "l103"]
  /\ UNCHANGED <<simVars, act, fazer_exame, events, sems, cap, hist>>

\* lines 103-105
ProcStartCirurgia(p) ==
  /\ fazer_cirurgia[p]
  /\ ProcStart(p, "cirurgia", "l103", "l106", "l164")

ProcWaitCirurgia(p) == ProcWait(p, "cirurgia", "l106", "l108")

ProcStartLeito(p) == ProcStart(p, "leito", "l108", "l110", "l188")

\* Variant: after the bed event run_process goes back to the start of the bed thread.
ProcWaitLeito_Relaunching(p) == ProcWait(p, "leito", "l110", "l108")

ProcWaitLeito(p) == ProcWait(p, "leito", "l110", "done")

\* lines 103, 111-113
ProcDrawLeito(p) ==
  /\ proc[p] = "l103"
  /\ ~fazer_cirurgia[p]
  /\ \E d \in BOOLEAN :
       /\ random(d)
       /\ proc' = [proc EXCEPT ![p] = IF d THEN "l114" ELSE "done"]
  /\ UNCHANGED <<simVars, act, fazer_exame, fazer_cirurgia, events, sems, cap, hist>>

ProcStartLeitoRaro(p) == ProcStart(p, "leito", "l114", "l116", "l188")

ProcWaitLeitoRaro(p) == ProcWait(p, "leito", "l116", "done")

run_process(p) ==
  /\ proc[p] \notin {"unstarted", "done"}
  /\ \/ proc[p] = "l80" /\ ProcStartConsulta(p)
     \/ proc[p] = "l82" /\ ProcWaitConsulta(p)
     \/ proc[p] = "l86" /\ ProcDrawExame(p)
     \/ proc[p] = "l90" /\ ProcDrawDirect(p)
     \/ proc[p] = "l95" /\ ProcStartExame(p)
     \/ proc[p] = "l97" /\ ProcWaitExame(p)
     \/ proc[p] = "l99" /\ ProcDrawCirurgia(p)
     \/ proc[p] = "l103" /\ ProcStartCirurgia(p)
     \/ proc[p] = "l106" /\ ProcWaitCirurgia(p)
     \/ proc[p] = "l108" /\ ProcStartLeito(p)
     \/ proc[p] = "l110" /\ ProcWaitLeito(p)
     \/ proc[p] = "l103" /\ ProcDrawLeito(p)
     \/ proc[p] = "l114" /\ ProcStartLeitoRaro(p)
     \/ proc[p] = "l116" /\ ProcWaitLeitoRaro(p)

----------------------------------------------------------------------------
\* run_simulation (lines 220-240) and Patient.start (lines 73-77).

\* line 230: p.start() for the next patient of the list
SimStart ==
  /\ main = "l230"
  /\ proc[idx] = "unstarted"
  /\ proc' = [proc EXCEPT ![idx] = "l80"]
  /\ IF idx = N_PACIENTES
       THEN main' = "l235" /\ idx' = 1
       ELSE main' = main /\ idx' = idx + 1
  /\ UNCHANGED <<act, fazer_exame, fazer_cirurgia, events, sems, cap, source, hist>>

\* Variant: the join loop does not wait for the thread.
SimJoin_NoWait ==
  /\ main = "l235"
  /\ IF idx = N_PACIENTES
       THEN main' = "l238" /\ idx' = idx
       ELSE main' = main /\ idx' = idx + 1
  /\ UNCHANGED <<procVars, act, events, sems, cap, source, hist>>

\* lines 235-236: t.join() returns once the patient's run_process has returned
SimJoin ==
  /\ main = "l235"
  /\ proc[idx] = "done"
  /\ IF idx = N_PACIENTES
       THEN main' = "l238" /\ idx' = idx
       ELSE main' = main /\ idx' = idx + 1
  /\ UNCHANGED <<procVars, act, events, sems, cap, source, hist>>

\* lines 238-240: the closing messages, then the function returns
SimReturn ==
  /\ main = "l238"
  /\ main' = "done"
  /\ UNCHANGED <<idx, procVars, act, events, sems, cap, source, hist>>

run_simulation == SimStart \/ SimJoin \/ SimReturn

----------------------------------------------------------------------------
Next ==
  \/ run_simulation
  \/ \E p \in Patients : run_process(p)
  \/ \E p \in Patients : thread_consulta(p)
  \/ \E p \in Patients : thread_exame(p)
  \/ \E p \in Patients : thread_cirurgia(p)
  \/ \E p \in Patients : thread_leito(p)

Spec == Init /\ [][Next]_vars

\* The interpreter schedules every thread that can run: weak fairness per thread.
Fairness ==
  /\ WF_vars(run_simulation)
  /\ \A p \in Patients :
       /\ WF_vars(run_process(p))
       /\ WF_vars(thread_consulta(p))
       /\ WF_vars(thread_exame(p))
       /\ WF_vars(thread_cirurgia(p))
       /\ WF_vars(thread_leito(p))

FairSpec == Init /\ [][Next]_vars /\ Fairness

\* The capacity the explored configuration gives pool r (lines 28-30).
Capacity(r) ==
  CASE r = "medicos" -> N_MEDICOS
    [] r = "salas" -> N_SALAS_CIRURGIA
    [] r = "leitos" -> N_LEITOS

\* The program with one of its pools constructed with no permit: Semaphore(0).
ZeroInit ==
  \E z \in Pools : InitWith([r \in Pools |-> IF r = z THEN 0 ELSE Capacity(r)])

ZeroSpec == ZeroInit /\ [][Next]_vars /\ Fairness

\* The program with as many practitioners as patients (N_MEDICOS = N_PACIENTES).
AmpleInit ==
  InitWith([r \in Pools |-> IF r = "medicos" THEN N_PACIENTES ELSE Capacity(r)])

AmpleSpec == AmpleInit /\ [][Next]_vars

\* The program run as a script (lines 242-244): random.seed() fixes the stream
\* before run_simulation.  A patient takes at most 10 values (lines 128, 86, 90,
\* 137, 147 or 155, 99, 177, 196, 202, 210).
StreamLen == 10 * N_PACIENTES

\* The streams explored: every Period-th value is a low one.
Periods == 2..3

Seeds == {[i \in 1..StreamLen |-> i % k = 0] : k \in Periods}

SeedInit == \E s \in Seeds : InitFrom([r \in Pools |-> Capacity(r)], s)

SeedSpec == SeedInit /\ [][Next]_vars

\* run_process of one patient when no other thread takes a value or a permit
\* meanwhile (every acquire succeeds), from stream position pos: its three
\* branching decisions and the stream position when it returns.
RunAlone(pos) ==
  LET exame == seed[pos + 2]                        \* line 128 took pos + 1
      direct == seed[pos + 3]                       \* line 90
      afterExame == pos + 3 + (IF exame THEN 3 ELSE 0)   \* lines 137, 147/155, 99
      cirurgia == direct \/ (exame /\ seed[afterExame])
      atBed == afterExame + 1                       \* line 177, or the draw of line 113
      leito == cirurgia \/ seed[atBed]
      rounded == leito /\ seed[atBed + 1]           \* line 196
      end == IF ~leito THEN atBed
             ELSE atBed + 2 + (IF rounded THEN 1 ELSE 0)   \* lines 196, 202, 210
  IN [exame |-> exame, cirurgia |-> cirurgia, leito |-> leito, pos |-> end]

\* The run in which the patients go through the hospital one after the other,
\* in the order of the list of line 229.
RECURSIVE Sequential(_)
Sequential(p) == RunAlone(IF p = 1 THEN 0 ELSE Sequential(p - 1).pos)

\* The branching decisions of run_process of patient p, once it has returned.
Decisions(p) ==
  [exame |-> fazer_exame[p], cirurgia |-> fazer_cirurgia[p],
   leito |-> launched[p]["leito"] > 0]

----------------------------------------------------------------------------
\* Where a thread stands, read off its label.

\* The labels of the acquire calls, with the pool each asks.
PoolAt ==
  [l \in {"l121", "l140", "l164", "l171", "l188", "l199"} |->
     CASE l \in {"l121", "l140", "l171", "l199"} -> "medicos"
       [] l = "l164" -> "salas"
       [] l = "l188" -> "leitos"]

\* The pool whose acquire the activity thread stands at ("none": not at an acquire).
WaitsFor(p, t) == IF act[p][t] \in DOMAIN PoolAt THEN PoolAt[act[p][t]] ELSE "none"

\* The surgery thread is between its successful room acquire and its room release.
HoldsRoom(p) == act[p]["cirurgia"] \in {"l171", "l181", "l182", "l184"}

\* The activity thread is between a successful practitioner acquire and its release
\* (lines 132, 151, 181 and 206 are the four releases).
HoldsMedico(p, t) == act[p][t] \in {"l132", "l151", "l181", "l206"}

\* The bed thread is between its successful bed acquire and its bed release.
HoldsBed(p) == act[p]["leito"] \in {"l196", "l199", "l206", "l214"}

Activities == Patients \X Threads

\* Permits of pool r that the threads of patient p hold, read off their labels.
UsedBy(p, r) ==
  CASE r = "medicos" ->
         (IF HoldsMedico(p, "consulta") THEN 1 ELSE 0)
           + (IF HoldsMedico(p, "exame") THEN 1 ELSE 0)
           + (IF HoldsMedico(p, "cirurgia") THEN 1 ELSE 0)
           + (IF HoldsMedico(p, "leito") THEN 1 ELSE 0)
    [] r = "salas" -> IF HoldsRoom(p) THEN 1 ELSE 0
    [] r = "leitos" -> IF HoldsBed(p) THEN 1 ELSE 0

\* Permits of pool r held by the patients 1..n.
RECURSIVE UsedByFirst(_, _)
UsedByFirst(n, r) == IF n = 0 THEN 0 ELSE UsedBy(n, r) + UsedByFirst(n - 1, r)

\* Permits of pool r in use: the threads standing between an acquire of r that
\* returned True and the release that follows it.
InUse(r) == UsedByFirst(N_PACIENTES, r)

\* The activities blocked in an acquire: the pool they ask is empty.
Blocked ==
  {a \in Activities : /\ act[a[1]][a[2]] \in DOMAIN PoolAt
                      /\ Sem(PoolAt[act[a[1]][a[2]]]) = 0}

\* The members of a set S of blocked activities that wait for a pool of which
\* some member of S holds a permit.
WaitingOn(S) ==
  {a \in S : \E b \in S : held[b[1]][b[2]][WaitsFor(a[1], a[2])] > 0}

\* The largest set of blocked activities each of which waits for a permit another
\* of them holds: it is nonempty exactly when some activities wait in a circle.
RECURSIVE Knot(_)
Knot(S) == IF WaitingOn(S) = S THEN S ELSE Knot(WaitingOn(S))

CircularWait == Blocked # {} /\ Knot(Blocked) # {}

----------------------------------------------------------------------------
\* Properties.

\* C1: every patient process that is started eventually reaches Discharged
\* (run_process returns), under fair scheduling.
C1_EveryPatientDischarged ==
  \A p \in Patients : (proc[p] # "unstarted") ~> (proc[p] = "done")

\* C2: the available permits of each of the three pools are never negative and
\* never above the pool's capacity.
C2_PoolBounds == \A r \in Pools : 0 <= Sem(r) /\ Sem(r) <= cap[r]

\* All three pools are exhausted at once while a patient has already been discharged.
C2_Witness ==
  /\ medicos_sem = 0 /\ salas_sem = 0 /\ leitos_sem = 0
  /\ \E p \in Patients : proc[p] = "done"

\* C3: at most roomCount patients are between room acquire and room release, and
\* at most practitionerCount practitioner permits are held at once over all the
\* activities of all patients.
C3_MutualExclusion ==
  /\ InUse("salas") <= cap["salas"]
  /\ InUse("medicos") <= cap["medicos"]

\* Every room and every practitioner is in use while another surgery waits for a room.
C3_Witness ==
  /\ Cardinality({p \in Patients : HoldsRoom(p)}) = cap["salas"]
  /\ Cardinality({a \in Activities : HoldsMedico(a[1], a[2])}) = cap["medicos"]
  /\ \E p \in Patients : act[p]["cirurgia"] = "l164"

\* C4: an activity in which an acquire timed out has set its completion signal
\* by the time it ends.
C4_TimeoutSetsSignal ==
  [][\A p \in Patients : \A t \in Threads :
       (act[p][t] # "done" /\ act'[p][t] = "done" /\ tmo[p][t] # {}) => Done(p, t)']_vars

\* C5: after the surgery thread has the room and its practitioner acquire times
\* out, the timeout changes no pool, the thread still holds exactly the room, its
\* next and last step gives the room back once, and it ends holding nothing.
C5_RoomReleasedOnMedicoTimeout ==
  /\ [](\A p \in Patients :
          "medicos" \in tmo[p]["cirurgia"] =>
            /\ act[p]["cirurgia"] = "l184"
            /\ held[p]["cirurgia"]["salas"] = 1
            /\ held[p]["cirurgia"]["medicos"] = 0)
  /\ [](\A p \in Patients :
          act[p]["cirurgia"] = "done" => \A r \in Pools : held[p]["cirurgia"][r] = 0)
  /\ [][\A p \in Patients :
          ("medicos" \notin tmo[p]["cirurgia"] /\ "medicos" \in tmo'[p]["cirurgia"]) =>
            /\ act[p]["cirurgia"] = "l171"
            /\ UNCHANGED sems]_vars
  /\ [][\A p \in Patients :
          ("medicos" \in tmo[p]["cirurgia"] /\ act'[p]["cirurgia"] # act[p]["cirurgia"]) =>
            /\ act'[p]["cirurgia"] = "done"
            /\ salas_sem' = salas_sem + 1
            /\ medicos_sem' = medicos_sem]_vars

\* A surgery thread has ended after its practitioner acquire timed out (its event
\* is unset although it held the room), and the room is free again.
C5_Witness ==
  \E p \in Patients :
    /\ act[p]["cirurgia"] = "done"
    /\ ~cirurgia_done[p]
    /\ salas_sem = cap["salas"]

\* C6: no exam, surgery or bed activity of a patient is started while that
\* patient's consultation event is unset.
C6_ConsultaFirst ==
  \A p \in Patients : \A t \in Threads \ {"consulta"} :
    (act[p][t] # "unstarted" \/ launched[p][t] > 0) => consulta_done[p]

\* A patient has gone through exam, surgery and bed.
C6_Witness ==
  \E p \in Patients : \A t \in Threads \ {"consulta"} : act[p][t] = "done"

\* C7: each completion signal is set at most once, and once it is set its
\* activity has ended and holds no permit of any pool.
C7_SignalAfterConclusion ==
  \A p \in Patients : \A t \in Threads :
    /\ sets[p][t] <= 1
    /\ Done(p, t) => (act[p][t] = "done" /\ \A r \in Pools : held[p][t][r] = 0)

\* C8: no patient has two activity threads started and not yet ended.
C8_OneActivityInFlight ==
  \A p \in Patients : Cardinality({t \in Threads : InFlight(p, t)}) <= 1

\* C9: the surgery thread holds the room whenever it attempts or holds the
\* practitioner, no activity stands at an acquire while it holds a practitioner,
\* and no activities wait for each other in a circle.
C9_RoomBeforeMedico ==
  [](/\ \A p \in Patients :
          (act[p]["cirurgia"] = "l171" \/ held[p]["cirurgia"]["medicos"] > 0) =>
            held[p]["cirurgia"]["salas"] = 1
     /\ \A a \in Activities :
          WaitsFor(a[1], a[2]) # "none" => held[a[1]][a[2]]["medicos"] = 0
     /\ ~CircularWait)

\* A surgery holds the room and waits for the practitioner another patient's
\* consultation holds, while no practitioner is free.
C9_Witness ==
  \E p, q \in Patients :
    /\ p # q
    /\ act[p]["cirurgia"] = "l171"
    /\ held[q]["consulta"]["medicos"] = 1
    /\ medicos_sem = 0

\* C10: run_simulation is past its joins only when every patient process has returned.
C10_JoinBeforeReturn ==
  main \in {"l238", "done"} => \A p \in Patients : proc[p] = "done"

\* run_simulation has returned.
C10_Witness == main = "done"

\* C11: when one pool has capacity 0, every patient that has started still
\* reaches Discharged, each activity it launched having ended with its signal set.
C11_ZeroCapacityDischarged ==
  \A p \in Patients :
    (launched[p]["consulta"] > 0) ~>
      (proc[p] = "done" /\ \A t \in Threads : launched[p][t] > 0 => Done(p, t))

\* C12: a patient whose surgery activity is launched has its bed activity
\* launched afterwards and is discharged only after the bed signal.
C12_BedAfterCirurgia ==
  \A p \in Patients :
    (launched[p]["cirurgia"] > 0) ~>
      (launched[p]["leito"] > 0 /\ cirurgia_done[p] /\ leito_done[p] /\ proc[p] = "done")

\* C13: with the stream of the random source fixed by the seed, the branching
\* decisions of every patient are the same in every run: those of the run in
\* which the patients are served one after the other.
C13_DecisionsFixedBySeed ==
  \A p \in Patients :
    proc[p] = "done" =>
      Decisions(p) = [x \in {"exame", "cirurgia", "leito"} |-> Sequential(p)[x]]

\* The run in which the patients are served one after the other is a run of
\* the program: the stream is used up exactly as Sequential says.
C13_SequentialRun ==
  /\ main = "done"
  /\ rng = Sequential(N_PACIENTES).pos
  /\ \A p \in Patients :
       Decisions(p) = [x \in {"exame", "cirurgia", "leito"} |-> Sequential(p)[x]]

\* C14: at all times, for each pool, available permits plus permits held equal
\* the capacity; a thread holds one permit exactly between its successful
\* acquire and its release, and none before, after, or after a failed acquire.
C14_PermitConservation ==
  [](/\ medicos_sem + InUse("medicos") = cap["medicos"]
     /\ salas_sem + InUse("salas") = cap["salas"]
     /\ leitos_sem + InUse("leitos") = cap["leitos"]
     /\ \A p \in Patients :
          /\ held[p]["cirurgia"]["salas"] = IF HoldsRoom(p) THEN 1 ELSE 0
          /\ held[p]["leito"]["leitos"] = IF HoldsBed(p) THEN 1 ELSE 0
          /\ \A t \in Threads :
               held[p][t]["medicos"] = IF HoldsMedico(p, t) THEN 1 ELSE 0)

\* A bed thread whose practitioner acquire timed out keeps its bed while no
\* practitioner is free.
C14_Witness ==
  \E p \in Patients :
    /\ "medicos" \in tmo[p]["leito"]
    /\ held[p]["leito"]["leitos"] = 1
    /\ medicos_sem = 0

\* C15: fazer_cirurgia is FALSE before the direct draw and is the direct draw
\* after it; the draw after the exams is made only when the exams draw was true
\* and the exam event is set, and can only turn the flag to TRUE; the surgery
\* activity is launched at line 103 exactly when the flag is TRUE there.
C15_CirurgiaIffDraws ==
  /\ [](\A p \in Patients :
          /\ proc[p] \in {"unstarted", "l80", "l82", "l86", "l90"} => ~fazer_cirurgia[p]
          /\ proc[p] \in {"l95", "l97", "l99"} => fazer_exame[p]
          /\ proc[p] = "l99" => exames_done[p]
          /\ proc[p] \in {"unstarted", "l80", "l82", "l86", "l90", "l95", "l97", "l99", "l103"}
               => launched[p]["cirurgia"] = 0
          /\ proc[p] \in {"l106", "l108", "l110", "l114", "l116", "done"}
               => (launched[p]["cirurgia"] = 1 <=> fazer_cirurgia[p]))
  /\ [][\A p \in Patients :
          (proc'[p] # proc[p] \/ fazer_exame'[p] # fazer_exame[p]
             \/ fazer_cirurgia'[p] # fazer_cirurgia[p]) =>
            /\ fazer_cirurgia'[p] # fazer_cirurgia[p] => proc[p] \in {"l90", "l99"}
            /\ fazer_exame'[p] # fazer_exame[p] => proc[p] = "l86"
            /\ (proc[p] = "l90" /\ proc'[p] # "l90") =>
                 proc'[p] = IF fazer_exame[p] THEN "l95" ELSE "l103"
            /\ (proc[p] = "l99" /\ proc'[p] # "l99") =>
                 (proc'[p] = "l103" /\ (fazer_cirurgia[p] => fazer_cirurgia'[p]))
            /\ (proc[p] = "l103" /\ proc'[p] # "l103") =>
                 (launched'[p]["cirurgia"] = 1 <=> fazer_cirurgia[p])]_vars

\* A patient with exams whose surgery was launched, and one without exams whose
\* surgery was not.
C15_Witness ==
  \E p, q \in Patients :
    /\ proc[p] = "l106" /\ fazer_exame[p] /\ launched[p]["cirurgia"] = 1
    /\ proc[q] = "done" /\ ~fazer_exame[q] /\ launched[q]["cirurgia"] = 0

\* C16: every activity is launched at most once, and an activity that was never
\* launched has not run and has its event unset, also after discharge.
C16_LaunchedOnce ==
  [](\A p \in Patients : \A t \in Threads :
       /\ launched[p][t] <= 1
       /\ launched[p][t] = 0 =>
            (act[p][t] = "unstarted" /\ ~Done(p, t) /\ sets[p][t] = 0))

\* A discharged patient that had no exam, no surgery and no bed.
C16_Witness ==
  \E p \in Patients :
    /\ proc[p] = "done"
    /\ \A t \in Threads \ {"consulta"} : launched[p][t] = 0 /\ ~Done(p, t)

\* C17: in the bed activity, once the bed permit is held, a practitioner timeout
\* at line 199 leaves the practitioner pool as it was and goes on to the bed
\* stay; on every path (timeout, rounding done, no rounding) the bed stays held
\* up to line 214, is released there exactly once, and leito_done is set next.
C17_BedStayAfterMedicoTimeout ==
  /\ [](\A p \in Patients :
          /\ HoldsBed(p) => (held[p]["leito"]["leitos"] = 1 /\ ~leito_done[p])
          /\ act[p]["leito"] = "l215" =>
               (held[p]["leito"]["leitos"] = 0 /\ ~leito_done[p])
          /\ "medicos" \in tmo[p]["leito"] =>
               (act[p]["leito"] \in {"l214", "l215"}
                  /\ held[p]["leito"]["medicos"] = 0))
  /\ [][\A p \in Patients :
          /\ (act[p]["leito"] = "l196" /\ act'[p]["leito"] # "l196") =>
               (act'[p]["leito"] \in {"l199", "l214"} /\ UNCHANGED sems)
          /\ (act[p]["leito"] = "l199" /\ act'[p]["leito"] # "l199") =>
               \/ /\ act'[p]["leito"] = "l206"
                  /\ medicos_sem' = medicos_sem - 1
               \/ /\ act'[p]["leito"] = "l214"
                  /\ "medicos" \in tmo'[p]["leito"]
                  /\ UNCHANGED sems
          /\ (act[p]["leito"] = "l206" /\ act'[p]["leito"] # "l206") =>
               (act'[p]["leito"] = "l214" /\ medicos_sem' = medicos_sem + 1)
          /\ (act[p]["leito"] = "l214" /\ act'[p]["leito"] # "l214") =>
               /\ act'[p]["leito"] = "l215"
               /\ leitos_sem' = leitos_sem + 1
               /\ UNCHANGED <<medicos_sem, salas_sem>>
          /\ (act[p]["leito"] = "l215" /\ act'[p]["leito"] # "l215") =>
               (act'[p]["leito"] = "done" /\ leito_done'[p] /\ UNCHANGED sems)
          /\ held'[p]["leito"]["leitos"] < held[p]["leito"]["leitos"] =>
               act[p]["leito"] = "l214"]_vars

\* The bed has been released after a practitioner timeout, the event not yet set.
C17_Witness ==
  \E p \in Patients :
    /\ act[p]["leito"] = "l215"
    /\ "medicos" \in tmo[p]["leito"]
    /\ held[p]["leito"]["leitos"] = 0

\* C18: in every reachable state a patient holds at most one permit of each
\* pool, counted over all four activity threads of that patient.
C18_OnePermitPerPool ==
  \A p \in Patients : \A r \in Pools :
    held[p]["consulta"][r] + held[p]["exame"][r]
      + held[p]["cirurgia"][r] + held[p]["leito"][r] <= 1

\* A patient holding one permit of each pool: the room in the surgery thread
\* (line 184 still to run), the bed and a practitioner in the bed thread.
C18_Witness ==
  \E p \in Patients :
    /\ held[p]["cirurgia"]["salas"] = 1
    /\ held[p]["leito"]["leitos"] = 1
    /\ held[p]["leito"]["medicos"] = 1

\* C20: with at least as many practitioners as patients (AmpleSpec), whenever an
\* activity is at a practitioner acquire a permit is available, so the acquire
\* never returns False.
C20_MedicoAvailableWhenAmple ==
  /\ cap["medicos"] >= N_PACIENTES
  /\ \A p \in Patients : \A t \in Threads :
       /\ WaitsFor(p, t) = "medicos" => medicos_sem >= 1
       /\ "medicos" \notin tmo[p][t]

\* Every patient but one holds a practitioner and the last one is at an acquire.
C20_Witness ==
  \E p \in Patients :
    /\ \E t \in Threads : WaitsFor(p, t) = "medicos"
    /\ \A q \in Patients \ {p} : \E t \in Threads : HoldsMedico(q, t)

\* C19: once run_simulation has returned, the three pools are at full capacity
\* and no activity thread holds a permit or has a statement left to run.
C19_QuiescentAfterReturn ==
  main = "done" =>
    /\ \A r \in Pools : Sem(r) = cap[r]
    /\ \A p \in Patients : \A t \in Threads :
         /\ ~InFlight(p, t)
         /\ \A r \in Pools : held[p][t][r] = 0

====
